---- MODULE Spec2Model ----
(***************************************************************************)
(* Model of FinalProject_WG.py, the Meteorite Landings Explorer: the CSV   *)
(* loader/cleaner, the classifier, the sidebar filters of main(), the map  *)
(* view and the three chart builders.                                      *)
(*                                                                         *)
(* A data frame is a sequence of records (rows in insertion order); each   *)
(* row carries its index label "id".  A numeric cell is a natural number   *)
(* (grams, years) or NaN; a text cell is a string or NA.  Classification   *)
(* codes are kept as sequences of one-character strings in the file so     *)
(* that the digit-stripping regular expression is computed, not assumed.   *)
(***************************************************************************)
EXTENDS Integers, Sequences, FiniteSets, TLC

VARIABLES
    csv,                  \* the rows of Meteorite_Landings.csv (static file)
    pc,                   \* position of the running script
    n_reads,              \* how many times the file has been read this session
    meteorite_data,       \* main(): the canonical data frame
    total_records,        \* main(): second value returned by the loader
    selected_types,       \* sidebar multiselect
    selected_year_range,  \* sidebar year slider, <<lo, hi>>
    selected_mass_range,  \* sidebar mass slider, <<lo, hi>>
    filtered_data,        \* main(): the filtered view
    filtered_records,     \* main(): get_df_count(filtered_data)
    total_data_count,     \* main(): get_df_count(meteorite_data)
    df_map,               \* map_locations(): the frame handed to the map layer
    pivot_counts,         \* chart_landings_over_time(): the pivot table
    type_counts,          \* chart_type_distribution(): the sorted counts
    top_10,               \* chart_top_mass_by_year(): the plotted frame
    shown                 \* what the current pass has put on the page

vars == <<csv, pc, n_reads, meteorite_data, total_records, selected_types,
          selected_year_range, selected_mass_range, filtered_data,
          filtered_records, total_data_count, df_map, pivot_counts,
          type_counts, top_10, shown>>

-----------------------------------------------------------------------------
(* Bounds of the model *)

\* longest file of the session specification
MaxRows == 2
\* most script runs (first run plus reruns) in one session
MaxRuns == 2
\* longest frame handed to the chart builders in the view specification
MaxViewRows == 12

-----------------------------------------------------------------------------
(* Cell values *)

\* the float NaN pandas uses for a missing numeric cell
NaN == -1
\* a non-numeric text in a numeric column of the file, such as "unknown"
Unknown == -2
\* the missing marker of a text column
NA == "<NA>"

IsNum(x) == x >= 0

\* x >= y and x <= y on floats: any comparison with NaN is False
Ge(x, y) == IsNum(x) /\ IsNum(y) /\ x >= y
Le(x, y) == IsNum(x) /\ IsNum(y) /\ x <= y

\* pd.to_numeric(..., errors='coerce')
to_numeric(x) == IF IsNum(x) THEN x ELSE NaN

Range(s) == {s[i] : i \in DOMAIN s}

-----------------------------------------------------------------------------
(* The classification table *)

meteorite_class ==
    [k \in {"CB", "CH", "CK", "CM", "CR", "CV", "CO", "CI"}
        |-> "Carbonaceous Chondrite"]
    @@ [k \in {"H", "L", "LL"} |-> "Ordinary Chondrite"]
    @@ [k \in {"R"} |-> "Rumuruti Chondrite"]
    @@ [k \in {"EH", "EL"} |-> "Enstatite Chondrite"]
    @@ [k \in {"Lodranite", "Acapulcoite", "Winonaite"} |-> "Primitive Achondrite"]
    @@ [k \in {"Shergottite", "Nakhlite", "Chassignite"} |-> "Martian"]
    @@ [k \in {"Aubrite"} |-> "Aubrite"]
    @@ [k \in {"Ureilite"} |-> "Ureilite"]
    @@ [k \in {"Howardite", "Eucrite", "Diogenite"} |-> "HED"]
    @@ [k \in {"Angrite"} |-> "Angrite"]
    @@ [k \in {"Brachinite"} |-> "Brachinite"]
    @@ [k \in {"Feldspathic Breccia", "Basaltic", "Polymict"} |-> "Lunar"]
    @@ [k \in {"IAB", "IIAB", "IIIAB", "IVAB"} |-> "Iron Meteorite"]
    @@ [k \in {"Pallasite", "Mesosiderite"} |-> "Stony-Iron"]

Digits == {"0", "1", "2", "3", "4", "5", "6", "7", "8", "9"}

IsNotDigit(c) == c \notin Digits

\* str.strip(): drop leading and trailing blanks
RECURSIVE LStrip(_)
LStrip(s) ==
    IF s # <<>> /\ Head(s) = " " THEN LStrip(Tail(s)) ELSE s

RECURSIVE RStrip(_)
RStrip(s) ==
    IF s # <<>> /\ s[Len(s)] = " " THEN RStrip(SubSeq(s, 1, Len(s) - 1)) ELSE s

RECURSIVE Join(_)
Join(s) == IF s = <<>> THEN "" ELSE Head(s) \o Join(Tail(s))

\* .str.replace('\d+', '', regex=True).str.strip() on one code
clean_classification(code) ==
    Join(RStrip(LStrip(SelectSeq(code, IsNotDigit))))

\* Series.map(meteorite_class) on one cleaned code
map_class(code) ==
    IF code \in DOMAIN meteorite_class THEN meteorite_class[code] ELSE NA

-----------------------------------------------------------------------------
(* The loader *)

\* rename, drop and clean one row of the file; the row keeps its id
clean_row(r) ==
    [id |-> r.id,
     Classification |-> clean_classification(r.recclass),
     Mass |-> r.mass,
     DiscoveryType |-> r.fall,
     Year |-> to_numeric(r.year),
     Latitude |-> r.reclat,
     Longitude |-> r.reclong]

\* read_meteorite_date(FILENAME): the frame and the record count of the file
read_meteorite_date(file) ==
    [df |-> [i \in DOMAIN file |-> clean_row(file[i])],
     total_records |-> Len(file)]

add_type(r) ==
    [id |-> r.id,
     Classification |-> r.Classification,
     Mass |-> r.Mass,
     DiscoveryType |-> r.DiscoveryType,
     Year |-> r.Year,
     Latitude |-> r.Latitude,
     Longitude |-> r.Longitude,
     Type |-> map_class(r.Classification)]

\* meteorite_data["Type"] = meteorite_data["Classification"].map(meteorite_class)
classify(df) == [i \in DOMAIN df |-> add_type(df[i])]

get_df_count(df) == Len(df)

-----------------------------------------------------------------------------
(* Program constants *)

slider_min_year == 1399
slider_max_year == 2025
\* step of the mass slider, in grams
mass_step == 1000
\* head(10) of the heaviest-meteorites chart
TopN == 10
\* one kilogram in grams
GramsPerKg == 1000

-----------------------------------------------------------------------------
(* Sidebar *)

\* available_types: the non-missing values of the Type column
available_types(df) == {r.Type : r \in Range(df)} \ {NA}

SetMin(S) == CHOOSE x \in S : \A y \in S : x <= y
SetMax(S) == CHOOSE x \in S : \A y \in S : x >= y

\* meteorite_data['Mass (g)'].dropna()
mass_data(df) == {r.Mass : r \in Range(df)} \ {NaN}

\* float(mass_data.min()), float(mass_data.max()): NaN when no mass is present
mass_min(df) == IF mass_data(df) = {} THEN NaN ELSE SetMin(mass_data(df))
mass_max(df) == IF mass_data(df) = {} THEN NaN ELSE SetMax(mass_data(df))

\* The mass column holds text as soon as one cell of the file is not a
\* number; float() of the "unknown" text raises ValueError.
mass_bounds_raise(df) == Unknown \in mass_data(df)

\* positions of the mass slider: mass_min + k * step up to mass_max, and
\* mass_max itself (the default upper end)
mass_positions(df) ==
    IF mass_data(df) = {} THEN {NaN}
    ELSE {m \in mass_min(df)..mass_max(df) :
            m = mass_max(df) \/ (m - mass_min(df)) % mass_step = 0}

\* positions of the year slider that the model tries
YearStops == {slider_min_year, 2000, slider_max_year}

Intervals(S) == {<<lo, hi>> \in S \X S : lo <= hi}

-----------------------------------------------------------------------------
(* Filters of main() *)

\* the category filter without its "if selected_types:" guard
filter_types_unguarded(df, types) ==
    LET Keep(r) == r.Type \in types
    IN  SelectSeq(df, Keep)

\* filtered_data[filtered_data["Type"].isin(selected_types)], under the
\* guard "if selected_types:"
filter_types(df, types) ==
    LET Keep(r) == r.Type \in types
    IN  IF types # {} THEN SelectSeq(df, Keep) ELSE df

\* the mass filter with > in place of >= at the lower end
filter_mass_strict(df, mass_range) ==
    LET Keep(r) == /\ IsNum(r.Mass) /\ IsNum(mass_range[1])
                   /\ r.Mass > mass_range[1]
                   /\ Le(r.Mass, mass_range[2])
    IN  SelectSeq(df, Keep)

filter_mass(df, mass_range) ==
    LET Keep(r) == Ge(r.Mass, mass_range[1]) /\ Le(r.Mass, mass_range[2])
    IN  SelectSeq(df, Keep)

dropna_year(df) ==
    LET Keep(r) == r.Year # NaN
    IN  SelectSeq(df, Keep)

filter_year(df, year_range) ==
    LET Keep(r) == Ge(r.Year, year_range[1]) /\ Le(r.Year, year_range[2])
    IN  SelectSeq(dropna_year(df), Keep)

\* the whole "Apply filters" block, starting from meteorite_data.copy()
apply_filters(df, types, mass_range, year_range) ==
    filter_year(filter_mass(filter_types(df, types), mass_range), year_range)

-----------------------------------------------------------------------------
(* Map view *)

map_row(r) ==
    [id |-> r.id,
     Classification |-> r.Classification,
     Mass |-> r.Mass,
     DiscoveryType |-> r.DiscoveryType,
     Year |-> r.Year,
     Latitude |-> r.Latitude,
     Longitude |-> r.Longitude,
     Type |-> IF r.Type = NA THEN "Unknown" ELSE r.Type,
     lat |-> r.Latitude,
     lon |-> r.Longitude]

\* map_locations(df): df is the caller's frame after the call, df_map the
\* copy that goes to the map layer
map_locations(df) ==
    LET Located(r) == r.Latitude # NaN /\ r.Longitude # NaN
        located == SelectSeq(df, Located)
    IN  [df |-> df, df_map |-> [i \in DOMAIN located |-> map_row(located[i])]]

-----------------------------------------------------------------------------
(* Chart 1: landings over time *)

\* the grouped rows without dropna(subset=['Year'])
yearly_rows_with_nan(df) == Range(df)

\* rows that groupby(['Year', 'Discovery Type']) counts: dropna takes out
\* the rows without year, and groupby leaves out a row with a missing key
yearly_rows(df) == {r \in Range(df) : r.Year # NaN /\ r.DiscoveryType # NA}

\* groupby(...).size() pivoted on Year x Discovery Type, fillna(0)
pivot_of(df) ==
    LET rows  == yearly_rows(df)
        years == {r.Year : r \in rows}
        kinds == {r.DiscoveryType : r \in rows}
    IN  [y \in years |-> [k \in kinds |->
            Cardinality({r \in rows : r.Year = y /\ r.DiscoveryType = k})]]

chart_landings_over_time(df) ==
    [df |-> df, pivot_counts |-> pivot_of(df), chart |-> TRUE]

-----------------------------------------------------------------------------
(* Chart 2: type distribution *)

\* value_counts(dropna=False): the missing Type gets an entry too
value_counts_with_na(df) ==
    {[Type |-> t, Count |-> Cardinality({r \in Range(df) : r.Type = t})] :
        t \in {r.Type : r \in Range(df)}}

\* df["Type"].value_counts(): one entry per non-missing Type
value_counts(df) ==
    {[Type |-> t, Count |-> Cardinality({r \in Range(df) : r.Type = t})] :
        t \in available_types(df)}

\* every order sort_values(ascending=False) may give: the sort is not
\* stable, so equal counts may come out in any order
RECURSIVE sorts_desc_by_count(_)
sorts_desc_by_count(S) ==
    IF S = {} THEN {<<>>}
    ELSE LET tops == {x \in S : \A y \in S : x.Count >= y.Count}
         IN  UNION {{<<x>> \o s : s \in sorts_desc_by_count(S \ {x})} :
                        x \in tops}

\* chart_type_distribution(df): the possible outcomes.  An empty count
\* table gives a warning and no chart.
chart_type_distribution(df) ==
    {[df |-> df, type_counts |-> tc, chart |-> tc # <<>>] :
        tc \in sorts_desc_by_count(value_counts(df))}

-----------------------------------------------------------------------------
(* Chart 3: heaviest meteorites in a year range *)

\* a mass in kilograms is the fraction grams / 1000
Kg(g) == [num |-> g, den |-> GramsPerKg]
KgLe(a, b) == a.num * b.den <= b.num * a.den

\* df.dropna(subset=['Mass (g)', 'Year'])
dropna_mass_year(df) ==
    LET Keep(r) == r.Mass # NaN /\ r.Year # NaN
    IN  SelectSeq(df, Keep)

\* rows left by dropna and the year mask
top_candidates(df, year_range) ==
    LET Keep(r) == Ge(r.Year, year_range[1]) /\ Le(r.Year, year_range[2])
    IN  Range(SelectSeq(dropna_mass_year(df), Keep))

\* every order sort_values('Mass (g)', ascending=False) may give
RECURSIVE sorts_desc_by_mass(_)
sorts_desc_by_mass(S) ==
    IF S = {} THEN {<<>>}
    ELSE LET tops == {x \in S : \A y \in S : x.Mass >= y.Mass}
         IN  UNION {{<<x>> \o s : s \in sorts_desc_by_mass(S \ {x})} :
                        x \in tops}

\* head taking one row too many
head_one_more(s, n) == SubSeq(s, 1, IF Len(s) < n + 1 THEN Len(s) ELSE n + 1)

\* .head(n)
head(s, n) == SubSeq(s, 1, IF Len(s) < n THEN Len(s) ELSE n)

\* top_10['Mass (kg)'] = top_10['Mass (g)'] / 1000
with_kg(r) ==
    [id |-> r.id, Mass |-> r.Mass, Year |-> r.Year, MassKg |-> Kg(r.Mass)]

\* every order sort_values('Mass (kg)', ascending=True) may give
RECURSIVE sorts_asc_by_kg(_)
sorts_asc_by_kg(S) ==
    IF S = {} THEN {<<>>}
    ELSE LET lows == {x \in S : \A y \in S : KgLe(x.MassKg, y.MassKg)}
         IN  UNION {{<<x>> \o s : s \in sorts_asc_by_kg(S \ {x})} :
                        x \in lows}

\* the frames top_10 may be when the bar chart is drawn
top_10_of(df, year_range) ==
    UNION {sorts_asc_by_kg({with_kg(r) : r \in Range(head(s, TopN))}) :
              s \in sorts_desc_by_mass(top_candidates(df, year_range))}

\* the chart with dropna(..., inplace=True) on the caller's frame
chart_top_mass_by_year_inplace(df, year_range) ==
    {[df |-> dropna_mass_year(df), top_10 |-> t, chart |-> TRUE] :
        t \in top_10_of(df, year_range)}

\* chart_top_mass_by_year(df, year_range): the possible outcomes.  The
\* figure is drawn whatever top_10 holds.
chart_top_mass_by_year(df, year_range) ==
    {[df |-> df, top_10 |-> t, chart |-> TRUE] : t \in top_10_of(df, year_range)}

-----------------------------------------------------------------------------
(* The input file *)

\* rows a file is made of: the numeric columns hold a number, an empty
\* cell (NaN after read_csv) or the text "unknown"
RawRows ==
    { [recclass |-> <<"L", "6">>, mass |-> 500, fall |-> "Fell",
       year |-> 2000, reclat |-> 10, reclong |-> 20],
      [recclass |-> <<"H", "5">>, mass |-> 1500, fall |-> "Found",
       year |-> 2000, reclat |-> 0, reclong |-> 0],
      [recclass |-> <<"C", "M", "2">>, mass |-> 3000, fall |-> "Found",
       year |-> 1999, reclat |-> 30, reclong |-> 40],
      [recclass |-> <<"L", "6">>, mass |-> NaN, fall |-> "Fell",
       year |-> 2000, reclat |-> 10, reclong |-> NaN],
      [recclass |-> <<"H", "4", "/", "5">>, mass |-> 1500, fall |-> "Found",
       year |-> 1999, reclat |-> NaN, reclong |-> NaN],
      [recclass |-> <<"C", "M", "2", " ">>, mass |-> 500, fall |-> "Fell",
       year |-> Unknown, reclat |-> 30, reclong |-> 40],
      [recclass |-> <<"L", "6">>, mass |-> 3000, fall |-> "Found",
       year |-> NaN, reclat |-> NaN, reclong |-> 20],
      [recclass |-> <<"H", "5">>, mass |-> Unknown, fall |-> "Found",
       year |-> 2000, reclat |-> 10, reclong |-> 20],
      [recclass |-> <<"C", "M", "2">>, mass |-> 1500, fall |-> "Found",
       year |-> 860, reclat |-> 30, reclong |-> 40] }

\* one line of the file: the row with its id column and the two columns
\* the loader drops
file_row(r, i) ==
    [id |-> i, recclass |-> r.recclass, mass |-> r.mass, fall |-> r.fall,
     year |-> r.year, reclat |-> r.reclat, reclong |-> r.reclong,
     nametype |-> "Valid", GeoLocation |-> <<r.reclat, r.reclong>>]

Files ==
    UNION {{[i \in 1..n |-> file_row(f[i], i)] : f \in [1..n -> RawRows]} :
              n \in 0..MaxRows}

-----------------------------------------------------------------------------
(* The script: one run of main() per page load or widget interaction *)

Unset ==
    /\ meteorite_data = <<>>
    /\ total_records = 0
    /\ selected_types = {}
    /\ selected_year_range = <<NaN, NaN>>
    /\ selected_mass_range = <<NaN, NaN>>
    /\ filtered_data = <<>>
    /\ filtered_records = 0
    /\ total_data_count = 0
    /\ df_map = <<>>
    /\ pivot_counts = <<>>
    /\ type_counts = <<>>
    /\ top_10 = <<>>
    /\ shown = {}

Init ==
    /\ csv \in Files
    /\ pc = "start"
    /\ n_reads = 0
    /\ Unset

\* "Load data and transform it": the file is read and the Type column added
Load ==
    /\ pc = "start"
    /\ n_reads' = n_reads + 1
    /\ meteorite_data' = classify(read_meteorite_date(csv).df)
    /\ total_records' = read_meteorite_date(csv).total_records
    /\ pc' = "loaded"
    /\ UNCHANGED <<csv, selected_types, selected_year_range,
                   selected_mass_range, filtered_data, filtered_records,
                   total_data_count, df_map, pivot_counts, type_counts,
                   top_10, shown>>

\* The mass slider's bounds cannot be computed: main() ends in a ValueError
RenderRaises ==
    /\ pc = "loaded"
    /\ mass_bounds_raise(meteorite_data)
    /\ pc' = "raised"
    /\ UNCHANGED <<csv, n_reads, meteorite_data, total_records,
                   selected_types, selected_year_range, selected_mass_range,
                   filtered_data, filtered_records, total_data_count, df_map,
                   pivot_counts, type_counts, top_10, shown>>

\* the three chart calls of main(), in order.  fd and md are the caller's
\* filtered_data and meteorite_data; the outcomes carry both as the calls
\* leave them.
draw_charts(fd, md, year_range) ==
    LET c1 == chart_landings_over_time(fd)
    IN  {[filtered_data |-> c2.df,
          meteorite_data |-> c3.df,
          pivot_counts |-> c1.pivot_counts,
          type_counts |-> c2.type_counts,
          top_10 |-> c3.top_10,
          shown |-> (IF c1.chart THEN {"chart1"} ELSE {})
                    \cup (IF c2.chart THEN {"chart2"} ELSE {"warning"})
                    \cup (IF c3.chart THEN {"chart3"} ELSE {})] :
            c2 \in chart_type_distribution(c1.df),
            c3 \in chart_top_mass_by_year(md, year_range)}

\* "Display Charts" without the test for an empty filtered view
display_charts_unguarded(fd, md, year_range) == draw_charts(fd, md, year_range)

\* "Display Charts": the three charts when the filtered view has rows, the
\* error message otherwise
display_charts(fd, md, year_range) ==
    IF fd # <<>>
    THEN draw_charts(fd, md, year_range)
    ELSE {[filtered_data |-> fd,
           meteorite_data |-> md,
           pivot_counts |-> <<>>,
           type_counts |-> <<>>,
           top_10 |-> <<>>,
           shown |-> {"error"}]}

\* The rest of main(): sidebar, filters, counts, map, charts, table, image.
\* Years are whole numbers here, so astype(int) leaves them as they are.
Render ==
    /\ pc = "loaded"
    /\ ~mass_bounds_raise(meteorite_data)
    /\ \E types \in SUBSET available_types(meteorite_data),
          year_range \in Intervals(YearStops),
          mass_range \in Intervals(mass_positions(meteorite_data)) :
         LET f == apply_filters(meteorite_data, types, mass_range, year_range)
             m == map_locations(f)
         IN  \E c \in display_charts(m.df, meteorite_data, year_range) :
               /\ selected_types' = types
               /\ selected_year_range' = year_range
               /\ selected_mass_range' = mass_range
               /\ filtered_records' = get_df_count(f)
               /\ total_data_count' = get_df_count(meteorite_data)
               /\ df_map' = m.df_map
               /\ filtered_data' = c.filtered_data
               /\ meteorite_data' = c.meteorite_data
               /\ pivot_counts' = c.pivot_counts
               /\ type_counts' = c.type_counts
               /\ top_10' = c.top_10
               /\ shown' = {"info", "map", "table", "image"} \cup c.shown
    /\ pc' = "rendered"
    /\ UNCHANGED <<csv, n_reads, total_records>>

\* A widget interaction: the script is run again from its first line
Rerun ==
    /\ pc \in {"rendered", "raised"}
    /\ n_reads < MaxRuns
    /\ pc' = "start"
    /\ meteorite_data' = <<>>
    /\ total_records' = 0
    /\ selected_types' = {}
    /\ selected_year_range' = <<NaN, NaN>>
    /\ selected_mass_range' = <<NaN, NaN>>
    /\ filtered_data' = <<>>
    /\ filtered_records' = 0
    /\ total_data_count' = 0
    /\ df_map' = <<>>
    /\ pivot_counts' = <<>>
    /\ type_counts' = <<>>
    /\ top_10' = <<>>
    /\ shown' = {}
    /\ UNCHANGED <<csv, n_reads>>

Next == Load \/ RenderRaises \/ Render \/ Rerun

Spec == Init /\ [][Next]_vars

-----------------------------------------------------------------------------
(* The chart builders on their own, applied to any frame *)

ViewYearRanges == {<<slider_min_year, slider_max_year>>, <<2000, 2000>>}

\* row i of a long frame: a row with mass and year, or one the top-10
\* chart must leave out (no mass, no year, or a year outside the slider)
LongRow(i, q) ==
    [id |-> i,
     Classification |-> IF i % 3 = 0 THEN "H/" ELSE IF i % 3 = 1 THEN "L" ELSE "CM",
     Mass |-> IF ~q /\ i % 3 = 0 THEN NaN ELSE (((5 * i + 7) % 11) + 1) * 250,
     DiscoveryType |-> IF i % 2 = 0 THEN "Fell" ELSE "Found",
     Year |-> IF q THEN 1999 + (i % 2)
              ELSE IF i % 3 = 1 THEN NaN ELSE IF i % 3 = 2 THEN 860 ELSE 2000,
     Latitude |-> NaN,
     Longitude |-> NaN,
     Type |-> map_class(IF i % 3 = 0 THEN "H/" ELSE IF i % 3 = 1 THEN "L" ELSE "CM")]

LongFrames ==
    UNION {{[i \in 1..n |-> LongRow(i, q[i])] : q \in [1..n -> BOOLEAN]} :
              n \in (MaxRows + 1)..MaxViewRows}

\* frames the loader and classifier build from files with numeric masses
LoadedFrames ==
    {classify(read_meteorite_date(f).df) :
        f \in {g \in Files : \A i \in DOMAIN g : g[i].mass # Unknown}}

InitViews ==
    /\ csv = <<>>
    /\ pc = "view"
    /\ n_reads = 0
    /\ meteorite_data \in LoadedFrames \cup LongFrames
    /\ filtered_data = meteorite_data
    /\ selected_year_range \in ViewYearRanges
    /\ total_records = 0
    /\ selected_types = {}
    /\ selected_mass_range = <<NaN, NaN>>
    /\ filtered_records = 0
    /\ total_data_count = 0
    /\ df_map = <<>>
    /\ pivot_counts = <<>>
    /\ type_counts = <<>>
    /\ top_10 = <<>>
    /\ shown = {}

ViewLandings ==
    /\ pc = "view"
    /\ LET c == chart_landings_over_time(filtered_data)
       IN  /\ pivot_counts' = c.pivot_counts
           /\ filtered_data' = c.df
           /\ shown' = IF c.chart THEN {"chart1"} ELSE {}
    /\ pc' = "chart1"
    /\ UNCHANGED <<csv, n_reads, meteorite_data, total_records,
                   selected_types, selected_year_range, selected_mass_range,
                   filtered_records, total_data_count, df_map, type_counts,
                   top_10>>

ViewTypes ==
    /\ pc = "view"
    /\ \E c \in chart_type_distribution(filtered_data) :
           /\ type_counts' = c.type_counts
           /\ filtered_data' = c.df
           /\ shown' = IF c.chart THEN {"chart2"} ELSE {"warning"}
    /\ pc' = "chart2"
    /\ UNCHANGED <<csv, n_reads, meteorite_data, total_records,
                   selected_types, selected_year_range, selected_mass_range,
                   filtered_records, total_data_count, df_map, pivot_counts,
                   top_10>>

ViewTopMass ==
    /\ pc = "view"
    /\ \E c \in chart_top_mass_by_year(meteorite_data, selected_year_range) :
           /\ top_10' = c.top_10
           /\ meteorite_data' = c.df
           /\ shown' = IF c.chart THEN {"chart3"} ELSE {}
    /\ pc' = "chart3"
    /\ UNCHANGED <<csv, n_reads, total_records, selected_types,
                   selected_year_range, selected_mass_range, filtered_data,
                   filtered_records, total_data_count, df_map, pivot_counts,
                   type_counts>>

NextViews == ViewLandings \/ ViewTypes \/ ViewTopMass

SpecViews == InitViews /\ [][NextViews]_vars

-----------------------------------------------------------------------------
(* Properties *)

\* position of a row in a frame (ids are unique)
PosIn(df, r) == CHOOSE i \in DOMAIN df : df[i].id = r.id

\* view holds rows of df only, each once, in the order they have in df
InOrderOf(view, df) ==
    /\ \A j \in DOMAIN view : \E i \in DOMAIN df : df[i] = view[j]
    /\ \A j, k \in DOMAIN view :
          j < k => PosIn(df, view[j]) < PosIn(df, view[k])

MassWithin(r, mass_range) ==
    r.Mass # NaN /\ mass_range[1] <= r.Mass /\ r.Mass <= mass_range[2]

YearWithin(r, year_range) ==
    r.Year # NaN /\ year_range[1] <= r.Year /\ r.Year <= year_range[2]

Selected(view, r) == \E j \in DOMAIN view : view[j].id = r.id

\* C1: with a non-empty category selection, the filtered view of a completed
\* pass is exactly the canonical rows, in canonical order, whose category is
\* selected, whose mass is present and inside the mass interval and whose
\* year is present and inside the year interval; rows with an absent
\* category, mass or year are never in it.
C1_FilterExact ==
    (pc = "rendered" /\ selected_types # {}) =>
        /\ InOrderOf(filtered_data, meteorite_data)
        /\ \A i \in DOMAIN meteorite_data :
              LET r == meteorite_data[i]
              IN  Selected(filtered_data, r) <=>
                    /\ r.Type \in selected_types
                    /\ MassWithin(r, selected_mass_range)
                    /\ YearWithin(r, selected_year_range)
        /\ \A j \in DOMAIN filtered_data :
              /\ filtered_data[j].Type # NA
              /\ filtered_data[j].Mass # NaN
              /\ filtered_data[j].Year # NaN

\* a pass with a selection that keeps one row and rejects another row of a
\* selected category
C1_Witness ==
    /\ pc = "rendered"
    /\ selected_types # {}
    /\ filtered_data # <<>>
    /\ \E i \in DOMAIN meteorite_data :
          /\ meteorite_data[i].Type \in selected_types
          /\ ~Selected(filtered_data, meteorite_data[i])

\* C2 as stated: with an empty category selection the filtered view is empty.
C2_EmptySelectionEmptyView ==
    (pc = "rendered" /\ selected_types = {}) => filtered_data = <<>>

\* C2 amended: with an empty category selection the category predicate is
\* skipped; the filtered view is exactly the canonical rows, in canonical
\* order, that pass the mass and year predicates, whatever their category.
C2_EmptySelectionSkipsTypeFilter ==
    (pc = "rendered" /\ selected_types = {}) =>
        /\ InOrderOf(filtered_data, meteorite_data)
        /\ \A i \in DOMAIN meteorite_data :
              LET r == meteorite_data[i]
              IN  Selected(filtered_data, r) <=>
                    /\ MassWithin(r, selected_mass_range)
                    /\ YearWithin(r, selected_year_range)

\* nothing selected although categories are on offer, and the view holds a
\* row with a category and a row without one
C2_Witness ==
    /\ pc = "rendered"
    /\ selected_types = {}
    /\ available_types(meteorite_data) # {}
    /\ \E j, k \in DOMAIN filtered_data :
          filtered_data[j].Type = NA /\ filtered_data[k].Type # NA

Min(a, b) == IF a < b THEN a ELSE b

\* rows of the chart's input that have a mass, a year, and a year in range
Qualifying(df, year_range) ==
    {i \in DOMAIN df : df[i].Mass # NaN /\ YearWithin(df[i], year_range)}

\* C3: the top-N view holds min(k, 10) of the k qualifying rows, none
\* lighter than a qualifying row left out, each with its mass in kilograms
\* (grams / 1000), in ascending order of mass.
C3_TopTen ==
    pc = "chart3" =>
        LET Q == Qualifying(meteorite_data, selected_year_range)
        IN  /\ Len(top_10) = Min(Cardinality(Q), 10)
            /\ \A j \in DOMAIN top_10 :
                  /\ \E i \in Q : /\ meteorite_data[i].id = top_10[j].id
                                  /\ meteorite_data[i].Mass = top_10[j].Mass
                  /\ top_10[j].MassKg.num * 1000 = top_10[j].Mass * top_10[j].MassKg.den
                  /\ top_10[j].MassKg.den > 0
            /\ \A j, k \in DOMAIN top_10 :
                  j < k => /\ top_10[j].id # top_10[k].id
                           /\ top_10[j].MassKg.num * top_10[k].MassKg.den
                                <= top_10[k].MassKg.num * top_10[j].MassKg.den
            /\ \A i \in Q :
                  ~Selected(top_10, meteorite_data[i]) =>
                      \A j \in DOMAIN top_10 : meteorite_data[i].Mass <= top_10[j].Mass

\* more than ten rows qualify, some row does not, and ten are plotted
C3_Witness ==
    /\ pc = "chart3"
    /\ Cardinality(Qualifying(meteorite_data, selected_year_range)) > 10
    /\ Cardinality(Qualifying(meteorite_data, selected_year_range)) < Len(meteorite_data)
    /\ Len(top_10) = 10

RECURSIVE SumOver(_, _)
SumOver(f, S) ==
    IF S = {} THEN 0
    ELSE LET x == CHOOSE x \in S : TRUE IN f[x] + SumOver(f, S \ {x})

RECURSIVE SumCounts(_)
SumCounts(tc) == IF tc = <<>> THEN 0 ELSE Head(tc).Count + SumCounts(Tail(tc))

\* C5: the counts of the category totals view add up to the number of input
\* rows with a category, no entry is for the absent category, and the
\* entries are in descending order of count.
C5_TypeTotals ==
    pc = "chart2" =>
        /\ SumCounts(type_counts)
             = Cardinality({i \in DOMAIN filtered_data : filtered_data[i].Type # NA})
        /\ \A j \in DOMAIN type_counts : type_counts[j].Type # NA
        /\ \A j, k \in DOMAIN type_counts :
              j < k => type_counts[j].Count >= type_counts[k].Count

\* a frame with a row without category and two categories of unequal count
C5_Witness ==
    /\ pc = "chart2"
    /\ \E i \in DOMAIN filtered_data : filtered_data[i].Type = NA
    /\ Len(type_counts) >= 2
    /\ type_counts[1].Count > type_counts[2].Count

Charts == {"chart1", "chart2", "chart3"}

\* C6: a pass whose filters leave no row reports zero matching records,
\* draws none of the three charts, and goes on to the table and the image.
C6_EmptyViewPass ==
    (pc = "rendered" /\ filtered_data = <<>>) =>
        /\ filtered_records = 0
        /\ "info" \in shown
        /\ shown \cap Charts = {}
        /\ {"table", "image"} \subseteq shown

\* a file with rows, all of them filtered out
C6_Witness ==
    /\ pc = "rendered"
    /\ filtered_data = <<>>
    /\ meteorite_data # <<>>
    /\ total_data_count > 0
    /\ "error" \in shown

\* C7 as stated: a malformed year or mass never makes the script raise; the
\* loader turns the field into the missing marker and keeps the row, and
\* the filter leaves the row out.
C7_MalformedNeverRaises ==
    /\ pc # "raised"
    /\ pc \in {"loaded", "rendered"} =>
          /\ Len(meteorite_data) = Len(csv)
          /\ total_records = Len(csv)
          /\ \A i \in DOMAIN csv :
                /\ csv[i].year = Unknown => meteorite_data[i].Year = NaN
                /\ csv[i].mass = Unknown => meteorite_data[i].Mass = NaN
    /\ pc = "rendered" =>
          \A i \in DOMAIN csv :
              (csv[i].year = Unknown \/ csv[i].mass = Unknown)
                  => ~Selected(filtered_data, meteorite_data[i])

\* C8: once the Type column is there, no step of a pass changes the
\* canonical frame.
C8_CanonicalUntouched ==
    [][pc = "loaded" => meteorite_data' = meteorite_data]_vars

\* a pass that filtered rows out, left rows off the map and drew the top-10
\* chart from the canonical frame, which still is what the loader built
C8_Witness ==
    /\ pc = "rendered"
    /\ "chart3" \in shown
    /\ Len(filtered_data) < Len(meteorite_data)
    /\ Len(df_map) < Len(filtered_data)
    /\ Len(top_10) < Len(meteorite_data)
    /\ total_data_count = total_records

C10_ReadOnce == n_reads <= 1

====
